---- MODULE Spec2Model ----
(***************************************************************************)
(* Model of src/handler.py: the RunPod serverless handler for ACE-Step 1.5 *)
(* cover mode.  The process-wide state is the module globals _dit_handler, *)
(* _llm_handler and _init_error plus the fixed-path temp file              *)
(* sophia_ref_input.wav.  The processes are the __main__ block (startup    *)
(* pre-load) and the worker slots in which handler(event) runs.            *)
(***************************************************************************)
EXTENDS Naturals, FiniteSets, Sequences, TLC

\* Number of jobs the process accepts in one behaviour.
MaxJobs == 3

None == "None"
Main == "main"
Slots == {"w1", "w2"}
Procs == {Main} \cup Slots

\* The temp file path holds no file, or a file with these bytes.
NoFile == "<nofile>"
DecodeError == "<binascii.Error>"

VARIABLES
    pc,            \* position of every process
    dit_handler,   \* _dit_handler: None or the AceStepHandler object (named by its creator)
    llm_handler,   \* _llm_handler: None or an LLMHandler object
    init_error,    \* _init_error: None or the recorded message
    initialized,   \* the AceStepHandler objects whose initialize_service returned success
    target,        \* per process: the object whose initialize_service it is executing
    exc,           \* per process: the exception travelling to the except clause of line 86
    initCalls,     \* number of initialize_service invocations so far
    file,          \* contents of <tmp>/sophia_ref_input.wav
    job,           \* per slot: the event being handled
    result,        \* per slot: what handler returned (or the exception it let escape)
    gen,           \* per slot: handler's local `result`, what generate_music produced
    hist,          \* per process: what the current/last call did
    jobsStarted,   \* number of jobs accepted so far
    everOverlap,   \* TRUE once two handler invocations were in flight together
    anomalies      \* what generate_music calls have observed so far

vars == <<pc, dit_handler, llm_handler, init_error, initialized, target, exc,
          initCalls, file, job, result, gen, hist, jobsStarted, everOverlap,
          anomalies>>

-----------------------------------------------------------------------------
\* Events (job payloads)

\* reference_audio values: key absent, empty string, two valid base64 strings
\* and one string base64.b64decode rejects (incorrect padding).
RefAudios == {"absent", "", "QUFB", "QkJC", "abc"}

\* hasInput: event["input"] is a mapping; ping: input has ping: true;
\* paramsOk: every numeric parameter present can be coerced by float()/int().
Events ==
    {[hasInput |-> FALSE, ping |-> FALSE, ref |-> "absent", paramsOk |-> TRUE],
     [hasInput |-> TRUE, ping |-> TRUE, ref |-> "absent", paramsOk |-> TRUE]}
    \cup {[hasInput |-> TRUE, ping |-> FALSE, ref |-> r, paramsOk |-> ok] :
            r \in RefAudios, ok \in BOOLEAN}

\* The jobs that pass validation and decode: the ones that reach generate_music
StagingEvents ==
    {ev \in Events : ev.hasInput /\ ev.paramsOk /\ ev.ref \in {"QUFB", "QkJC"}}

NoEvent == [hasInput |-> FALSE, ping |-> FALSE, ref |-> "absent", paramsOk |-> TRUE]

\* input_data.get("reference_audio", "")
ReferenceAudio(ev) == IF ev.ref = "absent" THEN "" ELSE ev.ref

\* base64.b64decode on the strings above
B64Decode(s) ==
    CASE s = "" -> ""
      [] s = "QUFB" -> "AAA"
      [] s = "QkJC" -> "BBB"
      [] OTHER -> DecodeError

\* f.write(s) with the decoding forgotten
WriteBytes_Raw(s) == s

\* f.write(base64.b64decode(reference_audio_b64)): the bytes that reach the file
WriteBytes(s) == B64Decode(s)

-----------------------------------------------------------------------------
\* Results

NoResult == [kind |-> "none", msg |-> ""]
Error(m) == [kind |-> "error", msg |-> m]
Raised(m) == [kind |-> "raised", msg |-> m]
Success == [kind |-> "success", msg |-> "audio_b64"]

\* What generate_music can do: raise, or return a result object with a success
\* flag, a list of audios (0 or 1 here), a first path that is empty or not and
\* names an existing file or not, which can then be read or not.  A failed
\* result is taken with no audio or with a complete one.
GenOutcomes ==
    {[raised |-> TRUE, success |-> FALSE, audios |-> 0, path |-> FALSE,
      exists |-> FALSE, readOk |-> FALSE]}
    \cup {g \in [raised : {FALSE}, success : BOOLEAN, audios : 0..1, path : BOOLEAN,
                 exists : BOOLEAN, readOk : BOOLEAN] :
            /\ (g.exists => g.path) /\ (g.readOk => g.exists)
            /\ (g.audios = 0 => ~g.path)
            /\ (~g.success /\ g.audios = 1 => g.readOk)}

NoGen == [raised |-> FALSE, success |-> FALSE, audios |-> 0, path |-> FALSE,
          exists |-> FALSE, readOk |-> FALSE]

\* The translation with the os.path.exists test dropped
Translate_NoExistsCheck(g) ==
    IF g.raised THEN Error("Inference error")
    ELSE IF ~g.success THEN Error("Generation failed")
    ELSE IF g.audios = 0 THEN Error("Generation produced no audio outputs")
    ELSE IF ~g.path THEN Error("Output audio not found")
    ELSE Success

\* Lines 179-208: the result handler returns for a generate_music outcome
Translate(g) ==
    IF g.raised THEN Error("Inference error")
    ELSE IF ~g.success THEN Error("Generation failed")
    ELSE IF g.audios = 0 THEN Error("Generation produced no audio outputs")
    ELSE IF ~g.path \/ ~g.exists THEN Error("Output audio not found")
    ELSE IF ~g.readOk THEN Error("Inference error")
    ELSE Success

-----------------------------------------------------------------------------
\* Per-call history

NoHist == [start |-> "unloaded", initCalled |-> FALSE, ensureFailed |-> FALSE,
           loadExc |-> "none", inputRead |-> FALSE, staged |-> FALSE,
           dirCreated |-> FALSE, genCalled |-> FALSE]

\* The lifecycle state the globals encode
ModelState ==
    IF dit_handler # None /\ dit_handler \in initialized /\ llm_handler # None
    THEN "loaded"
    ELSE IF init_error # None THEN "failed"
    ELSE IF dit_handler = None THEN "unloaded"
    ELSE "loading"

EnsureSteps == {"e_check", "e_listdir", "e_import", "e_construct", "e_init_call",
                "e_init_ret", "e_llm", "e_except"}

InEnsure(p) == pc[p] \in EnsureSteps
Active(s) == pc[s] \notin {"idle", "done"}

-----------------------------------------------------------------------------
\* _ensure_model_loaded

\* Lines 36-40 with the fast path missing
EnsureCheck_NoFastPath(dit, err) ==
    IF err # None THEN "raise" ELSE "load"

\* Lines 36-40: return when loaded, raise on a recorded failure, else load
EnsureCheck(dit, err) ==
    IF dit # None THEN "return"
    ELSE IF err # None THEN "raise"
    ELSE "load"

\* The handler with the except clause swallowing and no check of the handle
AfterEnsure_Swallow(raised, dit) == "proceed"

\* Lines 100-106: what handler does when _ensure_model_loaded comes back
AfterEnsure(raised, dit) ==
    IF raised THEN "return_error"
    ELSE IF dit = None THEN "return_not_loaded"
    ELSE "proceed"

\* The except clause without the reset of the handles
ExceptReset_KeepHandles(dit, llm, e) == [dit |-> dit, llm |-> llm, err |-> e]

\* Lines 88-90: the globals after the except clause
ExceptReset(dit, llm, e) == [dit |-> None, llm |-> None, err |-> e]

\* _ensure_model_loaded returns or raises in process p; h is p's history
EnsureExit(p, raised, msg, h) ==
    IF p = Main
    THEN /\ pc' = [pc EXCEPT ![p] = "serving"]
         /\ hist' = [hist EXCEPT ![p] = [h EXCEPT !.ensureFailed = raised]]
         /\ result' = result
    ELSE LET a == AfterEnsure(raised, dit_handler) IN
         /\ hist' = [hist EXCEPT ![p] = [h EXCEPT !.ensureFailed = raised]]
         /\ CASE a = "return_error" ->
                   /\ pc' = [pc EXCEPT ![p] = "done"]
                   /\ result' = [result EXCEPT ![p] = Error(msg)]
              [] a = "return_not_loaded" ->
                   /\ pc' = [pc EXCEPT ![p] = "done"]
                   /\ result' = [result EXCEPT ![p] = Error("Model not loaded")]
              [] OTHER ->
                   /\ pc' = [pc EXCEPT ![p] = "h_input"]
                   /\ result' = result

\* Lines 36-40
ECheck(p) ==
    /\ pc[p] = "e_check"
    /\ LET c == EnsureCheck(dit_handler, init_error) IN
         CASE c = "return" -> EnsureExit(p, FALSE, "", hist[p])
           [] c = "raise" -> EnsureExit(p, TRUE, "Previous init failed", hist[p])
           [] OTHER -> /\ pc' = [pc EXCEPT ![p] = "e_listdir"]
                       /\ UNCHANGED <<hist, result>>
    /\ UNCHANGED <<dit_handler, llm_handler, init_error, initialized, target, exc,
                   initCalls, file, job, gen, jobsStarted, everOverlap, anomalies>>

\* Lines 42-56: os.path.exists / os.listdir of the root, outside the try
EListdir(p) ==
    /\ pc[p] = "e_listdir"
    /\ \E ok \in BOOLEAN :
         IF ok
         THEN /\ pc' = [pc EXCEPT ![p] = "e_import"]
              /\ UNCHANGED <<hist, result>>
         ELSE EnsureExit(p, TRUE, "listdir failed", hist[p])
    /\ UNCHANGED <<dit_handler, llm_handler, init_error, initialized, target, exc,
                   initCalls, file, job, gen, jobsStarted, everOverlap, anomalies>>

\* Lines 59-60: the two imports
EImport(p) ==
    /\ pc[p] = "e_import"
    /\ \E ok \in BOOLEAN :
         IF ok
         THEN /\ pc' = [pc EXCEPT ![p] = "e_construct"]
              /\ exc' = exc
         ELSE /\ pc' = [pc EXCEPT ![p] = "e_except"]
              /\ exc' = [exc EXCEPT ![p] = "import"]
    /\ UNCHANGED <<dit_handler, llm_handler, init_error, initialized, target,
                   initCalls, file, job, result, gen, hist, jobsStarted,
                   everOverlap, anomalies>>

\* Line 62: _dit_handler = AceStepHandler()
EConstruct(p) ==
    /\ pc[p] = "e_construct"
    /\ dit_handler' = p
    /\ initialized' = initialized \ {p}
    /\ pc' = [pc EXCEPT ![p] = "e_init_call"]
    /\ UNCHANGED <<llm_handler, init_error, target, exc, initCalls, file, job,
                   result, gen, hist, jobsStarted, everOverlap, anomalies>>

\* Line 63: _dit_handler.initialize_service(...) is entered
EInitCall(p) ==
    /\ pc[p] = "e_init_call"
    /\ IF dit_handler = None
       THEN /\ pc' = [pc EXCEPT ![p] = "e_except"]
            /\ exc' = [exc EXCEPT ![p] = "attribute"]
            /\ UNCHANGED <<target, initCalls, hist>>
       ELSE /\ pc' = [pc EXCEPT ![p] = "e_init_ret"]
            /\ target' = [target EXCEPT ![p] = dit_handler]
            /\ initCalls' = initCalls + 1
            /\ hist' = [hist EXCEPT ![p].initCalled = TRUE]
            /\ exc' = exc
    /\ UNCHANGED <<dit_handler, llm_handler, init_error, initialized, file, job,
                   result, gen, jobsStarted, everOverlap, anomalies>>

\* Lines 63-78: initialize_service returns (status_msg, success) or raises
EInitRet(p) ==
    /\ pc[p] = "e_init_ret"
    /\ \E out \in {"success", "failure", "raise"} :
         CASE out = "success" ->
                /\ initialized' = initialized \cup {target[p]}
                /\ pc' = [pc EXCEPT ![p] = "e_llm"]
                /\ UNCHANGED <<dit_handler, init_error, exc>>
           [] out = "failure" ->
                /\ dit_handler' = None
                /\ init_error' = "DiT init failed"
                /\ pc' = [pc EXCEPT ![p] = "e_except"]
                /\ exc' = [exc EXCEPT ![p] = "DiT init failed"]
                /\ UNCHANGED initialized
           [] OTHER ->
                /\ pc' = [pc EXCEPT ![p] = "e_except"]
                /\ exc' = [exc EXCEPT ![p] = "initialize_service"]
                /\ UNCHANGED <<dit_handler, init_error, initialized>>
    /\ target' = [target EXCEPT ![p] = None]
    /\ UNCHANGED <<llm_handler, initCalls, file, job, result, gen, hist,
                   jobsStarted, everOverlap, anomalies>>

\* Lines 81-84: _llm_handler = LLMHandler(), then the normal return
ELlm(p) ==
    /\ pc[p] = "e_llm"
    /\ \E ok \in BOOLEAN :
         IF ok
         THEN /\ llm_handler' = "LLMHandler"
              /\ exc' = exc
              /\ EnsureExit(p, FALSE, "", hist[p])
         ELSE /\ pc' = [pc EXCEPT ![p] = "e_except"]
              /\ exc' = [exc EXCEPT ![p] = "LLMHandler"]
              /\ UNCHANGED <<llm_handler, hist, result>>
    /\ UNCHANGED <<dit_handler, init_error, initialized, target, initCalls, file,
                   job, gen, jobsStarted, everOverlap, anomalies>>

\* Lines 86-91: the except clause, then raise RuntimeError
EExcept(p) ==
    /\ pc[p] = "e_except"
    /\ LET g == ExceptReset(dit_handler, llm_handler, exc[p]) IN
         /\ dit_handler' = g.dit
         /\ llm_handler' = g.llm
         /\ init_error' = g.err
    /\ exc' = [exc EXCEPT ![p] = "none"]
    /\ EnsureExit(p, TRUE, "Model init failed", [hist[p] EXCEPT !.loadExc = exc[p]])
    /\ UNCHANGED <<initialized, target, initCalls, file, job, gen, jobsStarted,
                   everOverlap, anomalies>>

-----------------------------------------------------------------------------
\* __main__

\* Line 222 true, lines 225-226: the startup pre-load begins
Preload ==
    /\ pc[Main] = "start"
    /\ pc' = [pc EXCEPT ![Main] = "e_check"]
    /\ hist' = [hist EXCEPT ![Main] = [NoHist EXCEPT !.start = ModelState]]
    /\ UNCHANGED <<dit_handler, llm_handler, init_error, initialized, target, exc,
                   initCalls, file, job, result, gen, jobsStarted, everOverlap,
                   anomalies>>

\* Line 222 false: the module is imported and handler is called by the importer
Imported ==
    /\ pc[Main] = "start"
    /\ pc' = [pc EXCEPT ![Main] = "serving"]
    /\ UNCHANGED <<dit_handler, llm_handler, init_error, initialized, target, exc,
                   initCalls, file, job, result, gen, hist, jobsStarted,
                   everOverlap, anomalies>>

-----------------------------------------------------------------------------
\* handler(event)

\* Lines 98-101: handler is entered with event ev and calls _ensure_model_loaded
Enter(s, ev) ==
    /\ pc[Main] = "serving"
    /\ pc[s] = "idle"
    /\ jobsStarted < MaxJobs
    /\ jobsStarted' = jobsStarted + 1
    /\ job' = [job EXCEPT ![s] = ev]
    /\ result' = [result EXCEPT ![s] = NoResult]
    /\ gen' = [gen EXCEPT ![s] = NoGen]
    /\ hist' = [hist EXCEPT ![s] = [NoHist EXCEPT !.start = ModelState]]
    /\ pc' = [pc EXCEPT ![s] = "e_check"]
    /\ everOverlap' = (everOverlap \/ \E o \in Slots \ {s} : Active(o))
    /\ UNCHANGED <<dit_handler, llm_handler, init_error, initialized, target, exc,
                   initCalls, file, anomalies>>

\* One job at a time: the hosting queue dispatches a job when none is in flight
StartJob(s) ==
    /\ \A o \in Slots : pc[o] = "idle"
    /\ \E ev \in Events : Enter(s, ev)

\* A second invocation of handler is entered while one is in flight; both are
\* for jobs that reach staging
StartJobConcurrent(s) ==
    /\ \E o \in Slots : Active(o) /\ job[o] \in StagingEvents
    /\ \E ev \in StagingEvents : Enter(s, ev)

\* Line 108: input_data = event["input"]
HInput(s) ==
    /\ pc[s] = "h_input"
    /\ IF job[s].hasInput
       THEN /\ pc' = [pc EXCEPT ![s] = "h_params"]
            /\ hist' = [hist EXCEPT ![s].inputRead = TRUE]
            /\ result' = result
       ELSE /\ pc' = [pc EXCEPT ![s] = "done"]
            /\ result' = [result EXCEPT ![s] = Raised("KeyError")]
            /\ hist' = hist
    /\ UNCHANGED <<dit_handler, llm_handler, init_error, initialized, target, exc,
                   initCalls, file, job, gen, jobsStarted, everOverlap, anomalies>>

\* Lines 111-126: the .get calls, the float()/int() coercions, and then
\* if not reference_audio_b64
HParams(s) ==
    /\ pc[s] = "h_params"
    /\ IF ~job[s].paramsOk
       THEN /\ pc' = [pc EXCEPT ![s] = "done"]
            /\ result' = [result EXCEPT ![s] = Raised("ValueError")]
       ELSE IF ReferenceAudio(job[s]) = ""
       THEN /\ pc' = [pc EXCEPT ![s] = "done"]
            /\ result' = [result EXCEPT ![s] =
                            Error("reference_audio (base64) is required for cover mode")]
       ELSE /\ pc' = [pc EXCEPT ![s] = "h_stage"]
            /\ result' = result
    /\ UNCHANGED <<dit_handler, llm_handler, init_error, initialized, target, exc,
                   initCalls, file, job, gen, hist, jobsStarted, everOverlap,
                   anomalies>>

\* Lines 129-131: open(ref_path, "wb") and f.write(base64.b64decode(...))
HStage(s) ==
    /\ pc[s] = "h_stage"
    /\ \E opened \in BOOLEAN :
         IF ~opened
         THEN /\ pc' = [pc EXCEPT ![s] = "done"]
              /\ result' = [result EXCEPT ![s] = Raised("OSError")]
              /\ UNCHANGED <<file, hist>>
         ELSE /\ hist' = [hist EXCEPT ![s].staged = TRUE]
              /\ IF B64Decode(ReferenceAudio(job[s])) = DecodeError
                 THEN /\ file' = ""
                      /\ pc' = [pc EXCEPT ![s] = "done"]
                      /\ result' = [result EXCEPT ![s] = Raised("binascii.Error")]
                 ELSE /\ file' = WriteBytes(ReferenceAudio(job[s]))
                      /\ pc' = [pc EXCEPT ![s] = "h_getsize"]
                      /\ result' = result
    /\ UNCHANGED <<dit_handler, llm_handler, init_error, initialized, target, exc,
                   initCalls, job, gen, jobsStarted, everOverlap, anomalies>>

\* Lines 133-136: os.path.getsize(ref_path), outside the try
HGetsize(s) ==
    /\ pc[s] = "h_getsize"
    /\ IF file = NoFile
       THEN /\ pc' = [pc EXCEPT ![s] = "done"]
            /\ result' = [result EXCEPT ![s] = Raised("FileNotFoundError")]
       ELSE /\ pc' = [pc EXCEPT ![s] = "h_prepare"]
            /\ result' = result
    /\ UNCHANGED <<dit_handler, llm_handler, init_error, initialized, target, exc,
                   initCalls, file, job, gen, hist, jobsStarted, everOverlap,
                   anomalies>>

\* Lines 138-166: the import, the two records and tempfile.mkdtemp, inside the try
HPrepare(s) ==
    /\ pc[s] = "h_prepare"
    /\ \E ok \in BOOLEAN :
         IF ok
         THEN /\ pc' = [pc EXCEPT ![s] = "h_generate"]
              /\ hist' = [hist EXCEPT ![s].dirCreated = TRUE]
              /\ result' = result
         ELSE /\ pc' = [pc EXCEPT ![s] = "h_cleanup"]
              /\ result' = [result EXCEPT ![s] = Error("Inference error")]
              /\ hist' = hist
    /\ UNCHANGED <<dit_handler, llm_handler, init_error, initialized, target, exc,
                   initCalls, file, job, gen, jobsStarted, everOverlap, anomalies>>

\* What a generate_music call finds at ref_path
SeenFile(s) ==
    IF file = NoFile THEN {"deleted"}
    ELSE IF file # B64Decode(ReferenceAudio(job[s])) THEN {"foreign"}
    ELSE {}

\* The handle generate_music is given
SeenDit ==
    IF dit_handler # None /\ dit_handler \notin initialized THEN {"uninit"} ELSE {}

\* Lines 168-174: generate_music is called with the globals and ref_path
HGenerate(s) ==
    /\ pc[s] = "h_generate"
    /\ pc' = [pc EXCEPT ![s] = "h_translate"]
    /\ hist' = [hist EXCEPT ![s].genCalled = TRUE]
    /\ anomalies' = anomalies \cup SeenFile(s) \cup SeenDit
    /\ UNCHANGED <<dit_handler, llm_handler, init_error, initialized, target, exc,
                   initCalls, file, job, result, gen, jobsStarted, everOverlap>>

\* Lines 176-208: generate_music returns or raises and the result is translated
HTranslate(s) ==
    /\ pc[s] = "h_translate"
    /\ \E g \in GenOutcomes :
         /\ gen' = [gen EXCEPT ![s] = g]
         /\ result' = [result EXCEPT ![s] = Translate(g)]
    /\ pc' = [pc EXCEPT ![s] = "h_cleanup"]
    /\ UNCHANGED <<dit_handler, llm_handler, init_error, initialized, target, exc,
                   initCalls, file, job, hist, jobsStarted, everOverlap, anomalies>>

\* Lines 210-215: finally: os.unlink(ref_path), OSError ignored; handler's
\* locals (the generation result among them) end with the call
HCleanup(s) ==
    /\ pc[s] = "h_cleanup"
    /\ file' = NoFile
    /\ gen' = [gen EXCEPT ![s] = NoGen]
    /\ pc' = [pc EXCEPT ![s] = "done"]
    /\ UNCHANGED <<dit_handler, llm_handler, init_error, initialized, target, exc,
                   initCalls, job, result, hist, jobsStarted, everOverlap,
                   anomalies>>

\* handler has returned (or raised) and the worker takes the outcome: the slot
\* is free for the next job
Return(s) ==
    /\ pc[s] = "done"
    /\ pc' = [pc EXCEPT ![s] = "idle"]
    /\ job' = [job EXCEPT ![s] = NoEvent]
    /\ result' = [result EXCEPT ![s] = NoResult]
    /\ gen' = [gen EXCEPT ![s] = NoGen]
    /\ hist' = [hist EXCEPT ![s] = NoHist]
    /\ UNCHANGED <<dit_handler, llm_handler, init_error, initialized, target, exc,
                   initCalls, file, jobsStarted, everOverlap, anomalies>>

-----------------------------------------------------------------------------
\* Specifications

Init ==
    /\ pc = [p \in Procs |-> IF p = Main THEN "start" ELSE "idle"]
    /\ dit_handler = None
    /\ llm_handler = None
    /\ init_error = None
    /\ initialized = {}
    /\ target = [p \in Procs |-> None]
    /\ exc = [p \in Procs |-> "none"]
    /\ initCalls = 0
    /\ file = NoFile
    /\ job = [s \in Slots |-> NoEvent]
    /\ result = [s \in Slots |-> NoResult]
    /\ gen = [s \in Slots |-> NoGen]
    /\ hist = [p \in Procs |-> NoHist]
    /\ jobsStarted = 0
    /\ everOverlap = FALSE
    /\ anomalies = {}

Ensure(p) ==
    \/ ECheck(p)
    \/ EListdir(p)
    \/ EImport(p)
    \/ EConstruct(p)
    \/ EInitCall(p)
    \/ EInitRet(p)
    \/ ELlm(p)
    \/ EExcept(p)

Handle(s) ==
    \/ HInput(s)
    \/ HParams(s)
    \/ HStage(s)
    \/ HGetsize(s)
    \/ HPrepare(s)
    \/ HGenerate(s)
    \/ HTranslate(s)
    \/ HCleanup(s)
    \/ Return(s)

\* The serverless worker: one job is fully processed before the next is accepted
Next ==
    \/ Preload
    \/ Imported
    \/ \E p \in Procs : Ensure(p)
    \/ \E s \in Slots : StartJob(s)
    \/ \E s \in Slots : Handle(s)

Spec == Init /\ [][Next]_vars

\* The same process with handler invocations allowed to interleave
NextConcurrent ==
    \/ Preload
    \/ Imported
    \/ \E p \in Procs : Ensure(p)
    \/ \E s \in Slots : StartJob(s)
    \/ \E s \in Slots : StartJobConcurrent(s)
    \/ \E s \in Slots : Handle(s)

SpecConcurrent == Init /\ [][NextConcurrent]_vars

-----------------------------------------------------------------------------
\* Properties

\* No call of _ensure_model_loaded is in progress
Quiescent == \A p \in Procs : ~InEnsure(p)

Loaded == ModelState = "loaded"

\* C1: once the model is loaded (initialize_service succeeded and the LLM
\* handler was constructed) no step of any later job leaves the loaded state or
\* invokes initialize_service again.
C1_LoadedIsTerminal ==
    [][Loaded => (Loaded' /\ initCalls' = initCalls)]_vars

\* A job that began with the model loaded has run to a success result without
\* an initialization call.
C1_JobAfterLoad ==
    \E s \in Slots :
        /\ pc[s] = "done"
        /\ hist[s].start = "loaded"
        /\ ~hist[s].initCalled
        /\ result[s] = Success
        /\ initCalls = 1

\* C2: a job that arrives after a failed load invokes initialize_service again.
C2_FailedLoadIsRetried ==
    \A s \in Slots :
        (pc[s] = "done" /\ hist[s].start = "failed") => hist[s].initCalled

\* C3: a ping job is answered with pong: true, without an initialization call
\* and with the model state as it was when the ping arrived.
C3_PingAnswersPong ==
    \A s \in Slots :
        (pc[s] = "done" /\ job[s].ping) =>
            /\ result[s].kind = "pong"
            /\ ~hist[s].initCalled
            /\ ModelState = hist[s].start

\* C4: a job with empty or absent reference_audio ends in an error mapping,
\* with no temp file written and no initialization or generation call.
C4_EmptyReferenceTouchesNothing ==
    \A s \in Slots :
        (pc[s] = "done" /\ ReferenceAudio(job[s]) = "") =>
            /\ result[s].kind = "error"
            /\ ~hist[s].staged
            /\ ~hist[s].initCalled
            /\ ~hist[s].genCalled

\* C5: when a job that opened the temp file for staging finishes, on whatever
\* path, the temp file does not exist.
C5_TempFileRemoved ==
    \A s \in Slots :
        (pc[s] = "done" /\ hist[s].staged) => file = NoFile

\* C6: after generate_music the result is a success mapping only if the outcome
\* reported success, has an audio and its path names an existing file; else it
\* is an error mapping, decided in the order failure flag, empty list, missing
\* file.
C6_SuccessOnlyWithVerifiedOutput ==
    \A s \in Slots :
        (pc[s] = "h_cleanup" /\ hist[s].genCalled) =>
            LET g == gen[s]
                r == result[s]
            IN  /\ r.kind \in {"success", "error"}
                /\ r.kind = "success" =>
                     ~g.raised /\ g.success /\ g.audios > 0 /\ g.path /\ g.exists
                /\ (~g.raised /\ ~g.success) => r = Error("Generation failed")
                /\ (~g.raised /\ g.success /\ g.audios = 0) =>
                     r = Error("Generation produced no audio outputs")
                /\ (~g.raised /\ g.success /\ g.audios > 0 /\ ~(g.path /\ g.exists)) =>
                     r = Error("Output audio not found")

\* generate_music reported success and named a file that is not on disk, and
\* the job's result is an error mapping.
C6_MissingOutputIsError ==
    \E s \in Slots :
        /\ pc[s] = "h_cleanup"
        /\ hist[s].genCalled
        /\ gen[s].success /\ gen[s].audios = 1 /\ gen[s].path /\ ~gen[s].exists
        /\ result[s].kind = "error"

\* C7: every job ends in a mapping handler returned; no exception leaves handler.
C7_NoExceptionEscapes ==
    \A s \in Slots :
        pc[s] = "done" => result[s].kind \in {"error", "success"}

\* C8: when _ensure_model_loaded raised for a job, handler has returned an
\* error mapping and has not read the input, written the temp file, created an
\* output directory or called generate_music.
C8_EnsureFailureReturnsAtOnce ==
    \A s \in Slots :
        hist[s].ensureFailed =>
            /\ pc[s] = "done"
            /\ result[s].kind = "error"
            /\ ~hist[s].inputRead
            /\ ~hist[s].staged
            /\ ~hist[s].dirCreated
            /\ ~hist[s].genCalled

\* A job whose own load attempt failed has returned its error.
C8_LoadFailedInJob ==
    \E s \in Slots :
        /\ pc[s] = "done"
        /\ hist[s].ensureFailed
        /\ hist[s].initCalled
        /\ result[s] = Error("Model init failed")

\* C9: whenever no _ensure_model_loaded call is in progress, a set _dit_handler
\* is one whose initialize_service succeeded and comes with _llm_handler set and
\* _init_error None, a failed load attempt has left both handles None and
\* _init_error set, and a running generate_music call holds an initialized handle.
C9_HandlesConsistent ==
    Quiescent =>
        /\ dit_handler # None =>
             /\ dit_handler \in initialized
             /\ llm_handler # None
             /\ init_error = None
        /\ \A p \in Procs :
             hist[p].loadExc # "none" =>
                 /\ dit_handler = None
                 /\ llm_handler = None
                 /\ init_error # None
        /\ \A s \in Slots :
             pc[s] = "h_translate" =>
                 dit_handler # None /\ dit_handler \in initialized

\* A load attempt in which initialize_service raised (the handle was set and
\* not initialized) has been cleaned up.
C9_RaisedInitCleanedUp ==
    /\ Quiescent
    /\ \E p \in Procs : hist[p].loadExc = "initialize_service"
    /\ init_error = "initialize_service"

\* C10: as long as no two handler invocations have been in flight together,
\* every generate_music call found the temp file holding the decoded reference
\* audio of its own job and an initialized handle.
C10_SequentialJobsSeeOwnFile ==
    ~everOverlap =>
        /\ anomalies = {}
        /\ \A s \in Slots :
             pc[s] = "h_translate" => file = B64Decode(ReferenceAudio(job[s]))

\* With interleaved invocations, generate_music calls have found the file
\* holding the other job's bytes, found it deleted, and been given a handle
\* that is set but not initialized.
C10_InterleavedAnomalies ==
    /\ everOverlap
    /\ anomalies = {"foreign", "deleted", "uninit"}

====
